---- MODULE Spec2Model ----
(***************************************************************************)
(* The OBD2 protocol engine of signalk-obd2-monitor: the command scheduler *)
(* and response dispatcher (src/src/obd2-connection.js), the connection    *)
(* state machine (src/src/connection-state-manager.js) and the part of the *)
(* plugin that drives them (src/plugin/index.js).                          *)
(*                                                                         *)
(* The program runs on one Node.js event loop, so every callback runs to   *)
(* completion: each action below is one callback (a transport event, a     *)
(* timer expiry, a setImmediate callback, a call made by the plugin).      *)
(* Methods are operators from a state record to a state record, so that a  *)
(* handler is the composition of the calls it makes, in program order.     *)
(***************************************************************************)
EXTENDS Integers, Sequences, FiniteSets, TLC

VARIABLES
  \* ConnectionStateManager
  state, consecutiveFailures, lastSuccessfulData, smProbeTimeout,
  \* OBD2Connection
  port, enabledPids, maxBatchSize, currentPidIndex, initialized, buffer,
  lastCommand, batchMode, batchModeFailed, currentBatch, awaitingResponse,
  responseTimeout, continuousMode, reconnectTimeout, initStage, isProbing,
  probeTimeout, adapterCheckTimeout, engineCheckTimeout,
  \* the event loop: armed timers and pending immediates
  armed, initSeqs, older,
  \* the plugin and the adapter
  plugin, inflight,
  \* observation of the last step and history
  ev, wrote, emitted, polls, resolved, session, requested, batchWalk

vars == << state, consecutiveFailures, lastSuccessfulData, smProbeTimeout,
           port, enabledPids, maxBatchSize, currentPidIndex, initialized, buffer,
           lastCommand, batchMode, batchModeFailed, currentBatch, awaitingResponse,
           responseTimeout, continuousMode, reconnectTimeout, initStage, isProbing,
           probeTimeout, adapterCheckTimeout, engineCheckTimeout,
           armed, initSeqs, older, plugin, inflight,
           ev, wrote, emitted, polls, resolved, session, requested, batchWalk >>

----------------------------------------------------------------------------
(* Bounds of the model *)

\* armed timers of one kind (a handle that is overwritten leaks its timer)
MaxTimers == 2
\* initialization sequences (completeInitialization calls) in flight
MaxInitSeqs == 1
\* times the transport is opened (the first connection and the reconnections)
MaxOpens == 2
\* lines held in the receive buffer while no prompt has arrived
MaxBuf == 1
\* cap of consecutiveFailures (outside Active the code never resets it)
MaxFailures == 5
\* consecutive failed probes a run follows
MaxProbeFailures == 11

(* Program constants *)

maxConsecutiveFailures == 5
probeFailureLimit == 10

----------------------------------------------------------------------------
(* Values *)

STATES == {"disconnected", "connecting", "adapter_check", "engine_check",
           "initializing", "active", "probing", "engine_off"}

\* The PID lists of the engine profiles the model runs with.
PidLists == { <<"0C", "05", "22:0545">> }

\* One logical line of an adapter reply, as handleData's loop leaves it.
Lines == {"ELM327 v1.5", "41 00 BE 3F A8 13", "41 0C 1A F8", "NO DATA", "?",
          "CAN ERROR", "UNABLE TO CONNECT", "OK"}

\* A chunk of received bytes: the lines it completes and whether it ends with
\* the prompt character '>'.
Chunks == [lines : {<<>>} \cup {<<l>> : l \in Lines}, prompt : BOOLEAN]

\* The adapter: the lines it may answer a command with. It answers the last
\* command written to it, at any time later or never, and sends nothing else.
ReplyLines(command) ==
  IF command = <<"01", "00">> THEN {"41 00 BE 3F A8 13", "NO DATA", "CAN ERROR"}
  ELSE IF command[1] \in {"01", "22"}
       THEN {"41 0C 1A F8", "NO DATA", "?", "CAN ERROR", "UNABLE TO CONNECT"}
  ELSE {"ELM327 v1.5", "OK"}

\* Commands are the sequence of the parts the code concatenates: <<"01","0C","05">>
\* is the wire text 010C05.
PROBE == <<"01", "00">>
initCommands == << <<"ATZ">>, <<"ATE0">>, <<"ATH0">>, <<"ATSP0">> >>

TimerKinds == {"response", "reconnect", "probe", "smProbe", "adapterCheck",
               "engineCheck", "engineStart", "initStart", "immediate"}

\* Armed timers are counted by kind; "initCommand" is a timer of an
\* initialization sequence that sends a command (see completeInitialization).
CountedTimers == TimerKinds \cup {"initCommand"}

\* The timers of at most 4000 ms; the reconnect delay is 5000 ms.
ShortTimers == {"response", "probe", "smProbe", "adapterCheck", "engineCheck",
                "engineStart", "initStart", "initCommand"}

\* startsWith('22:')
IsMode22(pid) == pid \in {"22:0545"}

\* String tests of the dispatchers, over Lines.
includesAdapterId(l) == l \in {"ELM327 v1.5"}
includes4100(l) == l \in {"41 00 BE 3F A8 13"}
includesNoData(l) == l \in {"NO DATA"}
includesCanError(l) == l \in {"CAN ERROR"}
includesUnableToConnect(l) == l \in {"UNABLE TO CONNECT"}
includesQuestion(l) == l \in {"?"}
isDataLine(l) == l \in {"41 00 BE 3F A8 13", "41 0C 1A F8"}

\* The PIDs of the definition table, and getPidDefinition(pid) is not null
\* (pid-definitions.js)
DefinedPids == {"0C", "05", "0F", "24", "22:0545"}
pidDefined(pid) == pid \in DefinedPids

\* The PID a space-delimited Mode 01 data line carries (parts[1]).
pidOfLine(l) == IF l = "41 0C 1A F8" THEN "0C" ELSE "00"

Some(X, P(_)) == \E x \in X : P(x)
Range(q) == {q[i] : i \in 1..Len(q)}
Min(a, b) == IF a < b THEN a ELSE b

----------------------------------------------------------------------------
(* The state as one record, and its write-back *)

S == [ state |-> state, consecutiveFailures |-> consecutiveFailures,
       lastSuccessfulData |-> lastSuccessfulData, smProbeTimeout |-> smProbeTimeout,
       port |-> port, enabledPids |-> enabledPids, maxBatchSize |-> maxBatchSize,
       currentPidIndex |-> currentPidIndex, initialized |-> initialized,
       buffer |-> buffer, lastCommand |-> lastCommand, batchMode |-> batchMode,
       batchModeFailed |-> batchModeFailed, currentBatch |-> currentBatch,
       awaitingResponse |-> awaitingResponse, responseTimeout |-> responseTimeout,
       continuousMode |-> continuousMode, reconnectTimeout |-> reconnectTimeout,
       initStage |-> initStage, isProbing |-> isProbing, probeTimeout |-> probeTimeout,
       adapterCheckTimeout |-> adapterCheckTimeout,
       engineCheckTimeout |-> engineCheckTimeout,
       armed |-> armed, initSeqs |-> initSeqs,
       older |-> older, plugin |-> plugin, inflight |-> inflight,
       wrote |-> <<>>, emitted |-> <<>>, polls |-> <<>>, batchWalk |-> <<>>,
       resolved |-> resolved, session |-> session, requested |-> requested,
       overflow |-> FALSE ]

\* The step of callback `e` that ends in record t.
Commit(e, t) ==
  /\ ~t.overflow
  /\ ev' = e
  /\ state' = t.state /\ consecutiveFailures' = t.consecutiveFailures
  /\ lastSuccessfulData' = t.lastSuccessfulData /\ smProbeTimeout' = t.smProbeTimeout
  /\ port' = t.port /\ enabledPids' = t.enabledPids /\ maxBatchSize' = t.maxBatchSize
  /\ currentPidIndex' = t.currentPidIndex /\ initialized' = t.initialized
  /\ buffer' = t.buffer /\ lastCommand' = t.lastCommand /\ batchMode' = t.batchMode
  /\ batchModeFailed' = t.batchModeFailed /\ currentBatch' = t.currentBatch
  /\ awaitingResponse' = t.awaitingResponse /\ responseTimeout' = t.responseTimeout
  /\ continuousMode' = t.continuousMode /\ reconnectTimeout' = t.reconnectTimeout
  /\ initStage' = t.initStage /\ isProbing' = t.isProbing
  /\ probeTimeout' = t.probeTimeout /\ adapterCheckTimeout' = t.adapterCheckTimeout
  /\ engineCheckTimeout' = t.engineCheckTimeout
  /\ armed' = t.armed /\ initSeqs' = t.initSeqs
  /\ older' = t.older /\ plugin' = t.plugin /\ inflight' = t.inflight
  /\ wrote' = t.wrote /\ emitted' = t.emitted /\ polls' = t.polls
  /\ resolved' = t.resolved /\ session' = t.session /\ requested' = t.requested
  /\ batchWalk' = t.batchWalk

----------------------------------------------------------------------------
(* Timers and events *)

\* setTimeout / setImmediate: one more armed timer of kind k.
Arm(s, k) == [s EXCEPT !.armed[k] = @ + 1,
                       !.overflow = @ \/ s.armed[k] >= MaxTimers]

\* clearTimeout(handle) of an armed timer: of its kind, the one armed last.
Disarm(s, k) ==
  [s EXCEPT !.armed[k] = @ - 1,
            !.older[k] = IF @ = s.armed[k] THEN @ - 1 ELSE @]

\* The timer of kind k that was armed first fires.
Expire(s, k) ==
  [s EXCEPT !.armed[k] = @ - 1,
            !.older[k] = IF @ > 0 THEN @ - 1 ELSE 0]

\* emit(e), as seen by the listeners that do not act on the connection.
Emit(s, e) == [s EXCEPT !.emitted = Append(@, e)]

----------------------------------------------------------------------------
(* OBD2Connection: the command scheduler *)

\* History: how many of the configuration commands ATE0, ATH0, ATSP0 have been
\* written, in this order, since the adapter and the engine were verified.
Configured(s, command) ==
  IF /\ s.session.adapter /\ s.session.engine
     /\ s.session.config < 3 /\ command = initCommands[s.session.config + 2]
  THEN s.session.config + 1
  ELSE s.session.config

sendCommand(s, command) ==
  IF s.port = "open"
  THEN [s EXCEPT !.lastCommand = command, !.wrote = Append(@, command),
                 !.inflight = command, !.session.config = Configured(s, command)]
  ELSE s

clearResponseTimeout(s) ==
  IF s.responseTimeout
  THEN [Disarm(s, "response") EXCEPT !.responseTimeout = FALSE]
  ELSE s

\* The arming part of setResponseTimeout; its callback is responseTimeoutCallback.
setResponseTimeout(s) ==
  [Arm(clearResponseTimeout(s), "response") EXCEPT !.responseTimeout = TRUE]

\* pid.substring(3) of a Mode 22 identifier
mode22Pid(pid) == IF pid = "22:0545" THEN "0545" ELSE pid

\* The configured PIDs a command asks for.
PidsOf(command) ==
  IF command[1] = "22"
  THEN {"22:" \o command[2]}
  ELSE {command[j] : j \in 2..Len(command)}

\* History: the polling request being issued, with what held just before it.
LogPoll(s, command) ==
  [s EXCEPT !.polls = Append(@, [cmd |-> command,
                                 cursor |-> s.currentPidIndex,
                                 pending |-> s.awaitingResponse,
                                 resolved |-> s.resolved,
                                 written |-> s.port = "open"]),
            !.resolved = FALSE,
            !.requested = (IF @ = Range(s.enabledPids) THEN {} ELSE @)
                            \cup PidsOf(command)]


requestSinglePid(s) ==
  LET pid == s.enabledPids[s.currentPidIndex + 1]
      command == IF IsMode22(pid) THEN <<"22", mode22Pid(pid)>> ELSE <<"01", pid>>
      s1 == sendCommand(LogPoll(s, command), command)
      s2 == setResponseTimeout([s1 EXCEPT !.awaitingResponse = TRUE])
  IN [s2 EXCEPT !.currentPidIndex = (s.currentPidIndex + 1) % Len(s.enabledPids)]

\* Variant: the window is batched whatever it contains.
requestPidBatch_mixes(s) ==
  IF s.batchModeFailed
  THEN requestSinglePid([s EXCEPT !.batchMode = FALSE])
  ELSE
    LET n == Len(s.enabledPids)
        batchSize == Min(s.maxBatchSize, n - s.currentPidIndex)
        pidsInBatch == [i \in 1..batchSize |->
                          s.enabledPids[((s.currentPidIndex + i - 1) % n) + 1]]
        command == <<"01">> \o pidsInBatch
        s1 == sendCommand(LogPoll(s, command), command)
        s2 == setResponseTimeout([s1 EXCEPT !.awaitingResponse = TRUE])
    IN [s2 EXCEPT !.currentBatch = pidsInBatch,
                  !.currentPidIndex = (s.currentPidIndex + batchSize) % n]

\* Variant: a batch takes every PID left in the list.
requestPidBatch_oversize(s) ==
  IF s.batchModeFailed
  THEN requestSinglePid([s EXCEPT !.batchMode = FALSE])
  ELSE
    LET n == Len(s.enabledPids)
        hasMode22 == \E i \in 0..(s.maxBatchSize - 1) :
                        /\ s.currentPidIndex + i < n
                        /\ IsMode22(s.enabledPids[((s.currentPidIndex + i) % n) + 1])
        batchSize == n - s.currentPidIndex
        pidsInBatch == [i \in 1..batchSize |->
                          s.enabledPids[((s.currentPidIndex + i - 1) % n) + 1]]
        command == <<"01">> \o pidsInBatch
        s1 == sendCommand(LogPoll(s, command), command)
        s2 == setResponseTimeout([s1 EXCEPT !.awaitingResponse = TRUE])
    IN IF hasMode22
       THEN [requestSinglePid([s EXCEPT !.batchMode = FALSE]) EXCEPT !.batchMode = TRUE]
       ELSE [s2 EXCEPT !.currentBatch = pidsInBatch,
                       !.currentPidIndex = (s.currentPidIndex + batchSize) % n]

\* Variant: a batch is always as large as allowed and wraps over the end of
\* the list.
requestPidBatch_wraps(s) ==
  IF s.batchModeFailed
  THEN requestSinglePid([s EXCEPT !.batchMode = FALSE])
  ELSE
    LET n == Len(s.enabledPids)
        hasMode22 == \E i \in 0..(s.maxBatchSize - 1) :
                        /\ s.currentPidIndex + i < n
                        /\ IsMode22(s.enabledPids[((s.currentPidIndex + i) % n) + 1])
        batchSize == Min(s.maxBatchSize, n)
        pidsInBatch == [i \in 1..batchSize |->
                          s.enabledPids[((s.currentPidIndex + i - 1) % n) + 1]]
        command == <<"01">> \o pidsInBatch
        s1 == sendCommand(LogPoll(s, command), command)
        s2 == setResponseTimeout([s1 EXCEPT !.awaitingResponse = TRUE])
    IN IF hasMode22
       THEN [requestSinglePid([s EXCEPT !.batchMode = FALSE]) EXCEPT !.batchMode = TRUE]
       ELSE [s2 EXCEPT !.currentBatch = pidsInBatch,
                       !.currentPidIndex = (s.currentPidIndex + batchSize) % n]

requestPidBatch(s) ==
  IF s.batchModeFailed
  THEN requestSinglePid([s EXCEPT !.batchMode = FALSE])
  ELSE
    LET n == Len(s.enabledPids)
        hasMode22 == \E i \in 0..(s.maxBatchSize - 1) :
                        /\ s.currentPidIndex + i < n
                        /\ IsMode22(s.enabledPids[((s.currentPidIndex + i) % n) + 1])
        remainingPids == n - s.currentPidIndex
        batchSize == Min(s.maxBatchSize, remainingPids)
        pidsInBatch == [i \in 1..batchSize |->
                          s.enabledPids[((s.currentPidIndex + i - 1) % n) + 1]]
        command == <<"01">> \o pidsInBatch
        s1 == sendCommand(LogPoll(s, command), command)
        s2 == setResponseTimeout([s1 EXCEPT !.awaitingResponse = TRUE])
    IN IF hasMode22
       THEN [requestSinglePid([s EXCEPT !.batchMode = FALSE]) EXCEPT !.batchMode = TRUE]
       ELSE [s2 EXCEPT !.currentBatch = pidsInBatch,
                       !.currentPidIndex = (s.currentPidIndex + batchSize) % n]

\* Variant: the expiry clears the pending request and leaves the next request
\* to the next reply.
responseTimeoutCallback_idle(s) ==
  LET s1 == IF s.batchMode /\ s.currentBatch # <<>>
            THEN [s EXCEPT !.batchModeFailed = TRUE, !.batchMode = FALSE]
            ELSE s
  IN [s1 EXCEPT !.awaitingResponse = FALSE, !.resolved = TRUE]

\* Variant: a request is issued although the connection is not initialized.
requestNextPid_uninitialized(s) ==
  IF Len(s.enabledPids) = 0 \/ s.awaitingResponse
  THEN s
  ELSE IF s.batchMode THEN requestPidBatch(s) ELSE requestSinglePid(s)

\* Variant: a request is issued although one is pending.
requestNextPid_unguarded(s) ==
  IF ~s.initialized \/ Len(s.enabledPids) = 0
  THEN s
  ELSE IF s.batchMode THEN requestPidBatch(s) ELSE requestSinglePid(s)

requestNextPid(s) ==
  IF ~s.initialized \/ Len(s.enabledPids) = 0 \/ s.awaitingResponse
  THEN s
  ELSE IF s.batchMode THEN requestPidBatch(s) ELSE requestSinglePid(s)

\* The callback of the timer setResponseTimeout arms (the timer is disarmed by
\* the action that fires it).
responseTimeoutCallback(s) ==
  LET s1 == IF s.batchMode /\ s.currentBatch # <<>>
            THEN [s EXCEPT !.batchModeFailed = TRUE, !.batchMode = FALSE]
            ELSE s
      s2 == [s1 EXCEPT !.awaitingResponse = FALSE, !.resolved = TRUE]
  IN IF s2.continuousMode THEN requestNextPid(s2) ELSE s2

----------------------------------------------------------------------------
(* OBD2Connection: probing and reconnection *)

sendProbeCommand(s) ==
  IF s.port # "open"
  THEN s
  ELSE LET s1 == sendCommand([s EXCEPT !.lastCommand = PROBE, !.isProbing = TRUE], PROBE)
       IN [Arm(s1, "probe") EXCEPT !.probeTimeout = TRUE]

startProbing(s) ==
  sendProbeCommand([s EXCEPT !.continuousMode = FALSE, !.session.probed = TRUE])

\* The arming part of scheduleReconnect; its callback is reconnectCallback.
\* Variant: a reconnect timer is armed although one is armed already.
scheduleReconnect_unguarded(s) ==
  [Arm(s, "reconnect") EXCEPT
     !.reconnectTimeout = TRUE,
     !.older = [k \in CountedTimers |-> IF k \in ShortTimers THEN s.armed[k] ELSE 0]]

\* older[k] counts the timers of kind k that were armed before the reconnect
\* timer and are still armed: they expire before it does.
scheduleReconnect(s) ==
  IF s.reconnectTimeout
  THEN s
  ELSE [Arm(s, "reconnect") EXCEPT
          !.reconnectTimeout = TRUE,
          !.older = [k \in CountedTimers |-> IF k \in ShortTimers THEN s.armed[k] ELSE 0]]

\* connect(): a new SerialPort that opens by itself; `throws` is the constructor
\* throwing. The model has one SerialPort at a time: connect() is not followed
\* when this.port still names a port that is open or opening.
connect(s, throws) ==
  IF throws
  THEN Emit(s, <<"error">>)
  ELSE [s EXCEPT !.port = "opening",
                 !.overflow = @ \/ s.port \in {"opening", "open", "closing"}]

\* Variant: a reconnection gives batch mode another try.
reconnectCallback_resetsBatch(s, throws) ==
  connect([s EXCEPT !.reconnectTimeout = FALSE, !.initialized = FALSE,
                    !.initStage = "null", !.isProbing = FALSE, !.buffer = <<>>,
                    !.awaitingResponse = FALSE, !.batchMode = TRUE,
                    !.batchModeFailed = FALSE], throws)

reconnectCallback(s, throws) ==
  connect([s EXCEPT !.reconnectTimeout = FALSE, !.initialized = FALSE,
                    !.initStage = "null", !.isProbing = FALSE, !.buffer = <<>>,
                    !.awaitingResponse = FALSE], throws)

disconnect(s) ==
  LET s1 == clearResponseTimeout(s)
      s2 == IF s1.reconnectTimeout
            THEN [Disarm(s1, "reconnect") EXCEPT !.reconnectTimeout = FALSE] ELSE s1
      s3 == IF s2.probeTimeout
            THEN [Disarm(s2, "probe") EXCEPT !.probeTimeout = FALSE] ELSE s2
      s4 == IF s3.adapterCheckTimeout
            THEN [Disarm(s3, "adapterCheck") EXCEPT !.adapterCheckTimeout = FALSE] ELSE s3
      s5 == IF s4.engineCheckTimeout
            THEN [Disarm(s4, "engineCheck") EXCEPT !.engineCheckTimeout = FALSE] ELSE s4
  IN IF s5.port = "open" THEN [s5 EXCEPT !.port = "closing"] ELSE s5

----------------------------------------------------------------------------
(* ConnectionStateManager, with the listeners setupStateManagerHandlers      *)
(* registers called where the event is emitted                               *)

setState(s, newState) ==
  LET s1 == Emit([s EXCEPT !.state = newState,
                           !.session.probeFailures = IF newState = "probing" THEN @ ELSE 0],
                 <<"stateChange", s.state, newState>>)
  IN IF s.state = "probing" /\ s.smProbeTimeout
     THEN [Disarm(s1, "smProbe") EXCEPT !.smProbeTimeout = FALSE]
     ELSE s1

onConnected(s) == setState(s, "connecting")
onAdapterCheck(s) == setState(s, "adapter_check")
onEngineCheck(s) == setState(s, "engine_check")
onInitializing(s) == setState(s, "initializing")
onEngineOff(s) == [setState(s, "engine_off") EXCEPT !.consecutiveFailures = 0]
onInitialized(s) == [setState(s, "active") EXCEPT !.consecutiveFailures = 0]

\* Variant: the counters survive the disconnection.
onDisconnected_keepsCounters(s) == setState(s, "disconnected")

onDisconnected(s) ==
  [setState(s, "disconnected") EXCEPT !.consecutiveFailures = 0,
                                      !.lastSuccessfulData = FALSE]

\* emit('resumeNormalPolling') and its listener
resumeNormalPolling(s) ==
  LET s1 == Emit(s, <<"resumeNormalPolling">>)
  IN IF s1.initialized /\ s1.continuousMode THEN requestNextPid(s1) ELSE s1

\* Variant: a reading does not reset the no-data counter.
onDataReceived_keepsCounter(s) ==
  LET s1 == [s EXCEPT !.lastSuccessfulData = TRUE]
  IN IF s1.state = "probing"
     THEN resumeNormalPolling(setState(s1, "active"))
     ELSE s1

onDataReceived(s) ==
  LET s1 == [s EXCEPT !.lastSuccessfulData = TRUE, !.consecutiveFailures = 0]
  IN IF s1.state = "probing"
     THEN resumeNormalPolling(setState(s1, "active"))
     ELSE s1

onNoData(s) ==
  LET s1 == [s EXCEPT !.consecutiveFailures = @ + 1,
                      !.overflow = @ \/ s.consecutiveFailures >= MaxFailures]
  IN IF s1.state = "active" /\ s1.consecutiveFailures >= maxConsecutiveFailures
     THEN startProbing(Emit(setState(s1, "probing"), <<"startProbing">>))
     ELSE s1

\* History: session.probeFailures counts the probes that have failed in a row
\* in state Probing; it is 0 in every other state.
ProbeFailed(s) ==
  IF s.state = "probing"
  THEN [s EXCEPT !.session.probeFailures = @ + 1,
                 !.overflow = @ \/ s.session.probeFailures >= MaxProbeFailures]
  ELSE s

\* Variant: a successful probe leaves the no-data counter as it is.
onProbeResponse_keepsCounter(s, success) ==
  IF success
  THEN resumeNormalPolling(setState(s, "active"))
  ELSE IF s.consecutiveFailures > probeFailureLimit
       THEN scheduleReconnect(Emit(setState(ProbeFailed(s), "disconnected"),
                                   <<"connectionLost">>))
       ELSE ProbeFailed(s)

onProbeResponse(s, success) ==
  IF success
  THEN resumeNormalPolling([setState(s, "active") EXCEPT !.consecutiveFailures = 0])
  ELSE IF s.consecutiveFailures > probeFailureLimit
       THEN scheduleReconnect(Emit(setState(ProbeFailed(s), "disconnected"),
                                   <<"connectionLost">>))
       ELSE ProbeFailed(s)

\* The arming part of scheduleNextProbe; the timer's callback emits 'probe'.
scheduleNextProbe(s) ==
  IF s.state # "probing"
  THEN s
  ELSE [Arm(s, "smProbe") EXCEPT !.smProbeTimeout = TRUE]

----------------------------------------------------------------------------
(* OBD2Connection: the handshake *)

checkAdapterConnectivity(s) ==
  LET s1 == sendCommand([s EXCEPT !.initStage = "adapter_check"], <<"ATI">>)
  IN [Arm(s1, "adapterCheck") EXCEPT !.adapterCheckTimeout = TRUE]

initializeOBD(s) == checkAdapterConnectivity(onAdapterCheck(s))

checkEngineConnectivity(s) ==
  LET s1 == sendCommand([onEngineCheck(s) EXCEPT !.initStage = "engine_check"], PROBE)
  IN [Arm(s1, "engineCheck") EXCEPT !.engineCheckTimeout = TRUE]

\* The callback of the timer checkEngineConnectivity arms.
engineCheckTimeoutCallback(s) ==
  startProbing(Emit(onEngineOff(s), <<"engineOff">>))

\* completeInitialization arms five timers that fire in order; initSeqs[i] is
\* the number of such sequences whose next timer is the i-th (0..3 send
\* initCommands[i+1], 4 marks the connection initialized).
completeInitialization(s) ==
  LET s1 == onInitializing(s)
      n == s.initSeqs[0] + s.initSeqs[1] + s.initSeqs[2] + s.initSeqs[3] + s.initSeqs[4]
  IN [s1 EXCEPT !.initSeqs[0] = @ + 1, !.armed["initCommand"] = @ + 1,
                !.overflow = @ \/ n >= MaxInitSeqs]

\* The i-th timer of an initialization sequence. The plugin's 'initialized'
\* listener calls requestNextPid through its own reference to the connection,
\* which plugin.stop sets to null (the listener then throws).
initTimerCallback(s, i) ==
  LET s0 == [s EXCEPT !.initSeqs[i] = @ - 1]
  IN IF i < 4
     THEN sendCommand([(IF i = 3 THEN Expire(s0, "initCommand") ELSE s0)
                         EXCEPT !.initSeqs[i + 1] = @ + 1], initCommands[i + 1])
     ELSE LET s1 == [s0 EXCEPT !.initialized = TRUE, !.initStage = "null"]
              s2 == Emit(onInitialized(s1), <<"initialized">>)
          IN IF s2.plugin = "started" THEN requestNextPid(s2) ELSE s2

handleAdapterCheckResponse(s, responses) ==
  LET s1 == IF s.adapterCheckTimeout
            THEN [Disarm(s, "adapterCheck") EXCEPT !.adapterCheckTimeout = FALSE]
            ELSE s
  IN IF Some(Range(responses), includesAdapterId)
     THEN Arm(Emit([s1 EXCEPT !.session.adapter = TRUE], <<"adapterVerified">>),
              "engineStart")
     ELSE Emit(s1, <<"adapterError">>)

handleEngineCheckResponse(s, responses) ==
  LET s1 == IF s.engineCheckTimeout
            THEN [Disarm(s, "engineCheck") EXCEPT !.engineCheckTimeout = FALSE]
            ELSE s
  IN IF Some(Range(responses), includes4100)
     THEN Arm(Emit([s1 EXCEPT !.session.engine = TRUE], <<"engineVerified">>),
              "initStart")
     ELSE IF Some(Range(responses), includesNoData)
          THEN LET s2 == Emit(onEngineOff(s1), <<"engineOff">>)
               IN startProbing([s2 EXCEPT !.initialized = TRUE, !.initStage = "null"])
          ELSE Emit(s1, <<"engineError">>)

handleProbeResponse(s, responses) ==
  LET s1 == IF s.probeTimeout
            THEN [Disarm(s, "probe") EXCEPT !.probeTimeout = FALSE]
            ELSE s
  IN IF Some(Range(responses), includes4100)
     THEN [onProbeResponse(s1, TRUE) EXCEPT !.continuousMode = TRUE,
                                            !.isProbing = FALSE]
     ELSE IF Some(Range(responses), includesNoData)
          THEN scheduleNextProbe(onProbeResponse(s1, TRUE))
          ELSE scheduleNextProbe(onProbeResponse(s1, FALSE))

----------------------------------------------------------------------------
(* OBD2Connection: responses *)

processResponse(s, response) ==
  IF ~isDataLine(response) \/ includesNoData(response)
  THEN s
  ELSE IF pidDefined(pidOfLine(response))
       THEN Emit(onDataReceived(s), <<"data", pidOfLine(response)>>)
       ELSE s

RECURSIVE processEach(_, _)
\* dataResponses.forEach(response => this.processResponse(response))
processEach(s, dataResponses) ==
  IF dataResponses = <<>>
  THEN s
  ELSE processEach(processResponse(s, Head(dataResponses)), Tail(dataResponses))

\* Variant: a bus error counts as a no-data event.
processBatchResponse_busErrorCounts(s, responses) ==
  LET dataResponses == SelectSeq(responses, isDataLine)
      R == Range(responses)
  IN IF dataResponses = <<>>
     THEN IF Some(R, includesNoData) \/ Some(R, includesCanError) THEN onNoData(s)
          ELSE IF Some(R, includesUnableToConnect) THEN s
          ELSE IF Some(R, includesQuestion)
               THEN IF s.batchMode /\ s.currentBatch # <<>>
                    THEN [s EXCEPT !.batchModeFailed = TRUE, !.batchMode = FALSE]
                    ELSE s
               ELSE s
     ELSE processEach(s, dataResponses)

processBatchResponse(s, responses) ==
  LET dataResponses == SelectSeq(responses, isDataLine)
      R == Range(responses)
  IN IF dataResponses = <<>>
     THEN IF Some(R, includesNoData) THEN onNoData(s)
          ELSE IF Some(R, includesUnableToConnect) THEN s
          ELSE IF Some(R, includesCanError) THEN s
          ELSE IF Some(R, includesQuestion)
               THEN IF s.batchMode /\ s.currentBatch # <<>>
                    THEN [s EXCEPT !.batchModeFailed = TRUE, !.batchMode = FALSE]
                    ELSE s
               ELSE s
     ELSE processEach(s, dataResponses)

handleData(s, chunk) ==
  LET b == s.buffer \o chunk.lines
  IN IF ~chunk.prompt
     THEN [s EXCEPT !.buffer = b, !.overflow = @ \/ Len(b) > MaxBuf]
     ELSE LET s1 == [clearResponseTimeout(s) EXCEPT !.awaitingResponse = FALSE,
                                                    !.resolved = TRUE]
              responses == b
              s2 == IF responses = <<>> THEN s1
                    ELSE IF s1.initStage = "adapter_check"
                         THEN handleAdapterCheckResponse(s1, responses)
                    ELSE IF s1.initStage = "engine_check"
                         THEN handleEngineCheckResponse(s1, responses)
                    ELSE IF s1.isProbing /\ s1.lastCommand = PROBE
                         THEN handleProbeResponse(s1, responses)
                    ELSE processBatchResponse(s1, responses)
              s3 == [s2 EXCEPT !.buffer = <<>>]
          IN IF s3.continuousMode /\ s3.initialized THEN Arm(s3, "immediate") ELSE s3

----------------------------------------------------------------------------
(* The handlers connect() attaches to a SerialPort *)

\* port.on('open')
openHandler(s) ==
  initializeOBD(Emit(onConnected([s EXCEPT !.session = [opens |-> @.opens + 1,
                                                        adapter |-> FALSE,
                                                        engine |-> FALSE,
                                                        probed |-> FALSE,
                                                        config |-> 0,
                                                        probeFailures |-> 0]]),
                     <<"connected">>))

\* port.on('error')
errorHandler(s) == Emit(s, <<"error">>)

\* Variant: the close handler leaves reconnection to others.
closeHandler_noReconnect(s) ==
  [Emit(onDisconnected(s), <<"disconnected">>) EXCEPT
     !.initialized = FALSE, !.port = "null", !.inflight = <<>>]

\* port.on('close')
closeHandler(s) ==
  LET s1 == Emit(onDisconnected(s), <<"disconnected">>)
  IN scheduleReconnect([s1 EXCEPT !.initialized = FALSE, !.port = "null",
                                  !.inflight = <<>>])

\* A timer of kind k fires. Timers of one kind have one duration, so the one
\* handle h names was armed last and fires after the leaked ones.
Fired(s, k, h) ==
  IF s[h] /\ s.armed[k] = 1
  THEN [Expire(s, k) EXCEPT ![h] = FALSE]
  ELSE Expire(s, k)

\* The event loop runs a pending setImmediate callback before the next timer
\* and before the reply to a command that is yet to be written out.
\* A reply that arrives in two chunks arrives at once.
\* The timer of kind k that fires in s was armed before the reconnect timer, and
\* the timer of kind child its callback arms (in t) expires before the reconnect
\* timer as well: the two durations add up to less than the reconnect delay.
Inherit(s, t, k, child) ==
  IF s.older[k] > 0 /\ t.armed[child] > s.armed[child]
  THEN [t EXCEPT !.older[child] = @ + 1]
  ELSE t

TimersMayFire == armed["immediate"] = 0 /\ (port = "open" => buffer = <<>>)

----------------------------------------------------------------------------
(* Initial state: the connection as its constructor leaves it *)

BatchSizes == {2}

Constructed(pids) ==
  /\ state = "disconnected" /\ consecutiveFailures = 0
  /\ lastSuccessfulData = FALSE /\ smProbeTimeout = FALSE
  /\ port = "null" /\ enabledPids = pids /\ maxBatchSize \in BatchSizes
  /\ currentPidIndex = 0 /\ initialized = FALSE /\ buffer = <<>>
  /\ lastCommand = <<>> /\ batchMode = TRUE /\ batchModeFailed = FALSE
  /\ currentBatch = <<>> /\ awaitingResponse = FALSE /\ responseTimeout = FALSE
  /\ continuousMode = TRUE /\ reconnectTimeout = FALSE /\ initStage = "null"
  /\ isProbing = FALSE /\ probeTimeout = FALSE /\ adapterCheckTimeout = FALSE
  /\ engineCheckTimeout = FALSE
  /\ armed = [k \in CountedTimers |-> 0] /\ initSeqs = [i \in 0..4 |-> 0]
  /\ older = [k \in CountedTimers |-> 0] /\ plugin = "new" /\ inflight = <<>>
  /\ ev = <<"init">> /\ wrote = <<>> /\ emitted = <<>> /\ polls = <<>>
  /\ resolved = TRUE /\ requested = {} /\ batchWalk = <<>>
  /\ session = [opens |-> 0, adapter |-> FALSE, engine |-> FALSE, probed |-> FALSE,
                config |-> 0, probeFailures |-> 0]

Init == \E pids \in PidLists : Constructed(pids)

----------------------------------------------------------------------------
(* Actions: one per callback *)

\* plugin.start: obd2Connection.connect()
PluginStart ==
  /\ plugin = "new"
  /\ \E throws \in BOOLEAN :
       Commit(<<"start">>, connect([S EXCEPT !.plugin = "started"], throws))

\* plugin.stop: obd2Connection.disconnect(); obd2Connection = null
PluginStop ==
  /\ plugin = "started" /\ (port = "open" => buffer = <<>>)
  /\ Commit(<<"stop">>, [disconnect(S) EXCEPT !.plugin = "stopped"])

\* port.on('open'): the port opens for the first time. A port that closed stays
\* away (the reconnect supervisor's attempts then stay pending); SpecReconnect
\* lets it come back.
PortOpen ==
  /\ port = "opening" /\ session.opens = 0
  /\ Commit(<<"open">>, openHandler([S EXCEPT !.port = "open"]))

\* The port could not be opened.
PortError ==
  /\ port = "opening"
  /\ Commit(<<"error">>, errorHandler([S EXCEPT !.port = "failed"]))

\* The device goes away, or the close that disconnect() asked for completes.
PortClose ==
  /\ port \in {"open", "closing"}
  /\ Commit(<<"close">>, closeHandler(S))

\* port.on('data'): the adapter's reply to the command in flight, either in one
\* chunk or as its line first and its prompt in a later chunk.
Deliver(chunk) ==
  /\ armed["immediate"] = 0 /\ port = "open"
  /\ IF chunk.lines # <<>>
     THEN inflight # <<>> /\ buffer = <<>> /\ chunk.lines[1] \in ReplyLines(inflight)
     ELSE buffer # <<>> /\ chunk.prompt
  /\ Commit(<<"data", chunk>>, handleData([S EXCEPT !.inflight = <<>>], chunk))

Data == \E chunk \in Chunks : Deliver(chunk)

\* The adapter's reply, arriving in one chunk.
WholeReply == \E chunk \in Chunks : chunk.prompt /\ chunk.lines # <<>> /\ Deliver(chunk)

ResponseTimeout ==
  /\ TimersMayFire /\ armed["response"] > 0
  /\ Commit(<<"responseTimeout">>,
            responseTimeoutCallback(Fired(S, "response", "responseTimeout")))

\* The timer sendProbeCommand arms.
ProbeTimeout ==
  /\ TimersMayFire /\ armed["probe"] > 0
  /\ Commit(<<"probeTimeout">>,
            Inherit(S, scheduleNextProbe(onProbeResponse(Fired(S, "probe", "probeTimeout"),
                                                         FALSE)),
                    "probe", "smProbe"))

\* The timer scheduleNextProbe arms: emit('probe'), whose listener sends a probe.
NextProbe ==
  /\ TimersMayFire /\ armed["smProbe"] > 0
  /\ Commit(<<"probe">>, sendProbeCommand(Fired(S, "smProbe", "smProbeTimeout")))

Reconnect ==
  /\ TimersMayFire /\ armed["reconnect"] > 0
  /\ \A k \in CountedTimers : older[k] = 0
  /\ \E throws \in BOOLEAN :
       Commit(<<"reconnect">>, reconnectCallback(Expire(S, "reconnect"), throws))

AdapterCheckTimeout ==
  /\ TimersMayFire /\ armed["adapterCheck"] > 0
  /\ Commit(<<"adapterCheckTimeout">>,
            Emit(Fired(S, "adapterCheck", "adapterCheckTimeout"), <<"adapterError">>))

EngineCheckTimeout ==
  /\ TimersMayFire /\ armed["engineCheck"] > 0
  /\ Commit(<<"engineCheckTimeout">>,
            engineCheckTimeoutCallback(Fired(S, "engineCheck", "engineCheckTimeout")))

\* 500 ms after the adapter was verified
EngineCheckStart ==
  /\ TimersMayFire /\ armed["engineStart"] > 0
  /\ Commit(<<"engineCheckStart">>,
            Inherit(S, checkEngineConnectivity(Expire(S, "engineStart")),
                    "engineStart", "engineCheck"))

\* 500 ms after the engine was verified
InitStart ==
  /\ TimersMayFire /\ armed["initStart"] > 0
  /\ Commit(<<"initStart">>,
            Inherit(S, completeInitialization(Expire(S, "initStart")),
                    "initStart", "initCommand"))

InitTimer ==
  /\ TimersMayFire
  /\ \E i \in 0..4 :
       /\ initSeqs[i] > 0
       /\ Commit(<<"initTimer", i>>, initTimerCallback(S, i))

\* setImmediate(() => this.requestNextPid())
Immediate ==
  /\ armed["immediate"] > 0
  /\ Commit(<<"immediate">>, requestNextPid(Expire(S, "immediate")))

Next ==
  \/ PluginStart \/ PluginStop
  \/ PortOpen \/ PortError \/ PortClose \/ Data
  \/ ResponseTimeout \/ ProbeTimeout \/ NextProbe \/ Reconnect
  \/ AdapterCheckTimeout \/ EngineCheckTimeout \/ EngineCheckStart \/ InitStart
  \/ InitTimer \/ Immediate

Spec == Init /\ [][Next]_vars

\* The plugin keeps running while the port closes and opens again; replies
\* arrive in one chunk.
PortReopen ==
  /\ port = "opening" /\ session.opens < MaxOpens
  /\ Commit(<<"open">>, openHandler([S EXCEPT !.port = "open"]))

NextReconnect ==
  \/ PluginStart \/ PortReopen \/ PortClose \/ WholeReply
  \/ ResponseTimeout \/ ProbeTimeout \/ NextProbe \/ Reconnect
  \/ AdapterCheckTimeout \/ EngineCheckTimeout \/ EngineCheckStart \/ InitStart
  \/ InitTimer \/ Immediate

\* One PID is enabled.
InitReconnect == Constructed(<<"0C">>)

SpecReconnect == InitReconnect /\ [][NextReconnect]_vars

\* The same with the PID list of Spec.
SpecReopen == Init /\ [][NextReconnect]_vars

\* The event loop runs every callback that is due: a timer that stays armed
\* expires, and a setImmediate callback is run. The adapter is not obliged to
\* answer and the port is not obliged to open or to close.
TimersExpire ==
  /\ WF_vars(ResponseTimeout) /\ WF_vars(ProbeTimeout) /\ WF_vars(NextProbe)
  /\ WF_vars(Reconnect) /\ WF_vars(AdapterCheckTimeout)
  /\ WF_vars(EngineCheckTimeout) /\ WF_vars(EngineCheckStart)
  /\ WF_vars(InitStart) /\ WF_vars(InitTimer) /\ WF_vars(Immediate)

SpecLive == InitReconnect /\ [][NextReconnect]_vars /\ TimersExpire

----------------------------------------------------------------------------
(* The command scheduler by itself: requestNextPid called at any time on a   *)
(* connection whose port is open, for several PID lists and batch sizes      *)

SchedulerPidLists ==
  { <<>>, <<"0C">>, <<"0C", "05">>, <<"0C", "22:0545">>, <<"22:0545", "0C", "05">>,
    <<"0C", "05", "0F">>, <<"0C", "05", "22:0545">> }

SchedulerBatchSizes == 1..3

InitScheduler ==
  /\ state = "active" /\ consecutiveFailures = 0
  /\ lastSuccessfulData = FALSE /\ smProbeTimeout = FALSE
  /\ port = "open" /\ enabledPids \in SchedulerPidLists
  /\ maxBatchSize \in SchedulerBatchSizes
  /\ currentPidIndex = 0 /\ initialized \in BOOLEAN /\ buffer = <<>>
  /\ lastCommand = <<"ATSP0">> /\ batchMode = TRUE /\ batchModeFailed = FALSE
  /\ currentBatch = <<>> /\ awaitingResponse = FALSE /\ responseTimeout = FALSE
  /\ continuousMode = TRUE /\ reconnectTimeout = FALSE /\ initStage = "null"
  /\ isProbing = FALSE /\ probeTimeout = FALSE /\ adapterCheckTimeout = FALSE
  /\ engineCheckTimeout = FALSE
  /\ armed = [k \in CountedTimers |-> 0] /\ initSeqs = [i \in 0..4 |-> 0]
  /\ older = [k \in CountedTimers |-> 0] /\ plugin = "started" /\ inflight = <<>>
  /\ ev = <<"init">> /\ wrote = <<>> /\ emitted = <<>> /\ polls = <<>>
  /\ resolved = TRUE /\ requested = {} /\ batchWalk = <<>>
  /\ session = [opens |-> 1, adapter |-> TRUE, engine |-> TRUE, probed |-> FALSE,
                config |-> 3, probeFailures |-> 0]

\* requestNextPid(), called from outside the polling loop
Request ==
  /\ plugin = "started"
  /\ Commit(<<"request">>, requestNextPid(S))

NextScheduler == Request \/ WholeReply \/ ResponseTimeout \/ Immediate

SpecScheduler == InitScheduler /\ [][NextScheduler]_vars

----------------------------------------------------------------------------
(* Received text, character by character: a text is the sequence of its
   characters, as handleData and the decoders read it *)

CR == "\r"
LF == "\n"
PROMPT == ">"

Digit == {"0", "1", "2", "3", "4", "5", "6", "7", "8", "9"}
HexDigit == Digit \cup {"A", "B", "C", "D", "E", "F", "a", "b", "c", "d", "e", "f"}
\* the white space of String.prototype.trim and of \s that a text holds
White == {" ", "\t", CR, LF}

txt41 == <<"4", "1">>
txt62 == <<"6", "2">>
txtSearching == <<"S", "E", "A", "R", "C", "H", "I", "N", "G">>
txtNoData == <<"N", "O", " ", "D", "A", "T", "A">>
txtUnableToConnect == <<"U", "N", "A", "B", "L", "E", " ", "T", "O", " ",
                        "C", "O", "N", "N", "E", "C", "T">>
txtCanError == <<"C", "A", "N", " ", "E", "R", "R", "O", "R">>

\* String.prototype.startsWith
startsWith(t, p) == Len(t) >= Len(p) /\ SubSeq(t, 1, Len(p)) = p

\* String.prototype.includes
includes(t, p) ==
  \E i \in 1..(Len(t) - Len(p) + 1) : SubSeq(t, i, i + Len(p) - 1) = p

\* String.prototype.substring(k), k counted from 0
substring(t, k) == IF k >= Len(t) THEN <<>> ELSE SubSeq(t, k + 1, Len(t))

\* String.prototype.trim
trim(t) ==
  LET inner == {i \in 1..Len(t) : t[i] \notin White}
  IN IF inner = {} THEN <<>>
     ELSE SubSeq(t, CHOOSE i \in inner : \A j \in inner : i <= j,
                    CHOOSE i \in inner : \A j \in inner : i >= j)

RECURSIVE splitFrom(_, _, _, _)
\* The lines of t from character i on; `lines` are those found so far, the last
\* of them still open, and inBreak tells that character i-1 was a line break.
splitFrom(t, i, lines, inBreak) ==
  IF i > Len(t) THEN lines
  ELSE IF t[i] \in {CR, LF}
       THEN splitFrom(t, i + 1, IF inBreak THEN lines ELSE Append(lines, <<>>), TRUE)
       ELSE splitFrom(t, i + 1,
                      [lines EXCEPT ![Len(lines)] = Append(@, t[i])], FALSE)

\* t.split(/[\r\n]+/): a text that starts or ends with a line break has an empty
\* first or last element.
splitLines(t) == splitFrom(t, 1, << <<>> >>, FALSE)

\* /^[0-9A-Fa-f]{3}$/.test(line)
isByteCount(line) == Len(line) = 3 /\ \A i \in 1..3 : line[i] \in HexDigit

\* Variant: no line matches.
lineNumberMatch_never(line) == <<>>

\* line.match(/^(\d+):\s*(.+)$/): its second group, or <<>> when there is no match
lineNumberMatch(line) ==
  LET k == CHOOSE n \in 0..Len(line) :
             /\ \A j \in 1..n : line[j] \in Digit
             /\ n = Len(line) \/ line[n + 1] \notin Digit
      rest == substring(line, k + 1)
      w == CHOOSE n \in 0..Len(rest) :
             /\ \A j \in 1..n : rest[j] \in White
             /\ n = Len(rest) \/ rest[n + 1] \notin White
  IN IF k = 0 \/ k >= Len(line) \/ line[k + 1] # ":" \/ rest = <<>> THEN <<>>
     ELSE IF w < Len(rest) THEN substring(rest, w)
     ELSE <<rest[Len(rest)]>>

RECURSIVE cleanFrom_firstOnly(_, _)
\* Variant: a byte count is recognised in the first line only.
cleanFrom_firstOnly(lines, i) ==
  IF i > Len(lines) THEN <<>>
  ELSE LET line == trim(lines[i])
           kept == line # <<>> /\ line # <<PROMPT>> /\ ~startsWith(line, txtSearching)
           m == lineNumberMatch(line)
       IN (IF ~kept THEN <<>>
           ELSE IF isByteCount(line) /\ i = 1 THEN <<>>
           ELSE IF m # <<>> THEN <<m>>
           ELSE <<line>>) \o cleanFrom_firstOnly(lines, i + 1)

RECURSIVE cleanFrom(_, _)
\* The loop of handleData over the lines, from line i on (i counted from 1).
cleanFrom(lines, i) ==
  IF i > Len(lines) THEN <<>>
  ELSE LET line == trim(lines[i])
           kept == line # <<>> /\ line # <<PROMPT>> /\ ~startsWith(line, txtSearching)
           m == lineNumberMatch(line)
       IN (IF ~kept THEN <<>>
           ELSE IF isByteCount(line) /\ i < Len(lines) THEN <<>>
           ELSE IF m # <<>> THEN <<m>>
           ELSE <<line>>) \o cleanFrom(lines, i + 1)

\* The responses handleData collects from a buffer that holds the prompt.
cleanLines(t) == cleanFrom(splitLines(t), 1)

(* The PID table (pid-definitions.js) and the decoders, over texts *)

HexChars == <<"0", "1", "2", "3", "4", "5", "6", "7",
              "8", "9", "A", "B", "C", "D", "E", "F">>

\* The value of a hex digit, upper or lower case.
hexValue(c) ==
  IF c \in {"a", "b", "c", "d", "e", "f"}
  THEN 10 + (CHOOSE i \in 0..5 : <<"a", "b", "c", "d", "e", "f">>[i + 1] = c)
  ELSE (CHOOSE i \in 1..16 : HexChars[i] = c) - 1

NaN == -1

RECURSIVE hexPrefix(_, _, _)
hexPrefix(t, i, acc) ==
  IF i > Len(t) \/ t[i] \notin HexDigit THEN acc
  ELSE hexPrefix(t, i + 1, acc * 16 + hexValue(t[i]))

\* parseInt(t, 16) of a text without white space, sign or 0x: the value of its
\* longest prefix of hex digits, NaN when that prefix is empty.
parseInt16(t) == IF t = <<>> \/ t[1] \notin HexDigit THEN NaN ELSE hexPrefix(t, 1, 0)

\* The wire text of a configured PID, e.g. "0C" or "22:0545".
PidText(pid) ==
  CASE pid = "0C" -> <<"0", "C">>
    [] pid = "05" -> <<"0", "5">>
    [] pid = "0F" -> <<"0", "F">>
    [] pid = "24" -> <<"2", "4">>
    [] pid = "22:0545" -> <<"2", "2", ":", "0", "5", "4", "5">>

\* pidDef.bytes of a defined PID
pidBytes(pid) ==
  CASE pid = "0C" -> 2
    [] pid = "05" -> 1
    [] pid = "0F" -> 1
    [] pid = "24" -> 4
    [] pid = "22:0545" -> 2

\* PidDefinitions.getPidDefinition(t): the PID defined under the text t, or
\* "none"
getPidDefinition(t) ==
  IF \E p \in DefinedPids : PidText(p) = t
  THEN CHOOSE p \in DefinedPids : PidText(p) = t
  ELSE "none"

RECURSIVE wordsFrom(_, _, _, _)
wordsFrom(t, i, words, inGap) ==
  IF i > Len(t) THEN words
  ELSE IF t[i] \in White
       THEN wordsFrom(t, i + 1, IF inGap THEN words ELSE Append(words, <<>>), TRUE)
       ELSE wordsFrom(t, i + 1,
                      [words EXCEPT ![Len(words)] = Append(@, t[i])], FALSE)

\* t.split(/\s+/)
splitWords(t) == wordsFrom(t, 1, << <<>> >>, FALSE)

\* The pieces cleanResponse.substr(i, 2) for i = 0, 2, 4, ...
pairs(t) ==
  [j \in 1..((Len(t) + 1) \div 2) |->
     SubSeq(t, 2 * j - 1, IF 2 * j <= Len(t) THEN 2 * j ELSE Len(t))]

\* parts.slice(k).map(byte => parseInt(byte, 16))
bytesFrom(parts, k) == [j \in 1..(Len(parts) - k) |-> parseInt16(parts[j + k])]

\* Variant: a frame of a mode byte and an identifier is accepted.
processResponseText_lenient(s, response) ==
  IF (~includes(response, txt41) /\ ~includes(response, txt62))
     \/ includes(response, txtNoData)
  THEN s
  ELSE
    LET cleanResponse == trim(response)
        spaced == includes(response, <<" ">>)
        parts == IF spaced THEN splitWords(cleanResponse) ELSE pairs(cleanResponse)
        responseMode == parts[1]
        mode22 == responseMode = txt62
        pid == IF mode22 THEN <<"2", "2", ":">> \o parts[2] \o parts[3] ELSE parts[2]
        valueBytes == bytesFrom(parts, IF mode22 THEN 3 ELSE 2)
        pidDef == getPidDefinition(pid)
    IN IF Len(parts) < 2 \/ responseMode \notin {txt41, txt62} THEN s
       ELSE IF mode22 /\ Len(parts) < 3 THEN s
       ELSE IF pidDef = "none" THEN s
       ELSE Emit(onDataReceived(s), <<"data", pidDef, valueBytes>>)

processResponseText(s, response) ==
  IF (~includes(response, txt41) /\ ~includes(response, txt62))
     \/ includes(response, txtNoData)
  THEN s
  ELSE
    LET cleanResponse == trim(response)
        spaced == includes(response, <<" ">>)
        minLength == IF startsWith(cleanResponse, txt62) THEN 8 ELSE 6
        invalid == /\ ~spaced
                   /\ \/ Len(cleanResponse) < minLength
                      \/ ~startsWith(cleanResponse, txt41)
                         /\ ~startsWith(cleanResponse, txt62)
        parts == IF spaced THEN splitWords(cleanResponse) ELSE pairs(cleanResponse)
        responseMode == parts[1]
        mode22 == responseMode = txt62
        pid == IF mode22 THEN <<"2", "2", ":">> \o parts[2] \o parts[3] ELSE parts[2]
        valueBytes == bytesFrom(parts, IF mode22 THEN 3 ELSE 2)
        pidDef == getPidDefinition(pid)
    IN IF invalid THEN s
       ELSE IF Len(parts) < 3 \/ responseMode \notin {txt41, txt62} THEN s
       ELSE IF mode22 /\ Len(parts) < 4 THEN s
       ELSE IF pidDef = "none" THEN s
       ELSE Emit(onDataReceived(s), <<"data", pidDef, valueBytes>>)

RECURSIVE processEachText(_, _)
\* dataResponses.forEach(response => this.processResponse(response))
processEachText(s, dataResponses) ==
  IF dataResponses = <<>>
  THEN s
  ELSE processEachText(processResponseText(s, Head(dataResponses)),
                       Tail(dataResponses))

\* History: one round of the loop of processBatchResponseWithoutSpaces, with the
\* read cursor (characters of the response consumed) at its start.
LogWalk(s, pid, cursor, outcome) ==
  [s EXCEPT !.batchWalk = Append(@, [pid |-> pid, cursor |-> cursor,
                                     outcome |-> outcome])]

RECURSIVE walkBatch_skipsIdentifier(_, _, _, _)
\* Variant: a mismatch moves the cursor past the identifier found.
walkBatch_skipsIdentifier(s, pids, response, cursor) ==
  LET remaining == substring(response, cursor)
      pid == Head(pids)
      dataLength == pidBytes(pid) * 2
  IN IF pids = <<>> \/ Len(remaining) < 2 THEN s
     ELSE IF SubSeq(remaining, 1, 2) # PidText(pid)
          THEN walkBatch_skipsIdentifier(LogWalk(s, pid, cursor, "mismatch"),
                                         Tail(pids), response, cursor + 2)
     ELSE IF ~pidDefined(pid)
          THEN walkBatch_skipsIdentifier(LogWalk(s, pid, cursor, "unknown"),
                                         Tail(pids), response, cursor + 2)
     ELSE IF Len(remaining) < 2 + dataLength
          THEN LogWalk(s, pid, cursor, "short")
     ELSE walkBatch_skipsIdentifier(
            processResponseText(LogWalk(s, pid, cursor, "decoded"),
                                txt41 \o SubSeq(remaining, 1, 2 + dataLength)),
            Tail(pids), response, cursor + 2 + dataLength)

RECURSIVE walkBatch(_, _, _, _)
\* for (const pid of this.currentBatch.pids), with `remaining` the response
\* from the cursor on
walkBatch(s, pids, response, cursor) ==
  LET remaining == substring(response, cursor)
      pid == Head(pids)
      dataLength == pidBytes(pid) * 2
  IN IF pids = <<>> \/ Len(remaining) < 2 THEN s
     ELSE IF SubSeq(remaining, 1, 2) # PidText(pid)
          THEN walkBatch(LogWalk(s, pid, cursor, "mismatch"), Tail(pids), response,
                         cursor)
     ELSE IF ~pidDefined(pid)
          THEN walkBatch(LogWalk(s, pid, cursor, "unknown"), Tail(pids), response,
                         cursor + 2)
     ELSE IF Len(remaining) < 2 + dataLength
          THEN LogWalk(s, pid, cursor, "short")
     ELSE walkBatch(processResponseText(LogWalk(s, pid, cursor, "decoded"),
                                        txt41 \o SubSeq(remaining, 1, 2 + dataLength)),
                    Tail(pids), response, cursor + 2 + dataLength)

processBatchResponseWithoutSpaces(s, response) ==
  IF ~startsWith(response, txt41) THEN s
  ELSE walkBatch(s, s.currentBatch, response, 2)

isDataText(r) ==
  \/ startsWith(r, txt41) \/ startsWith(r, txt62)
  \/ includes(r, txt41 \o <<" ">>) \/ includes(r, txt62 \o <<" ">>)

processBatchResponseText(s, responses) ==
  LET dataResponses == SelectSeq(responses, isDataText)
      R == Range(responses)
  IN IF dataResponses = <<>>
     THEN IF \E r \in R : includes(r, txtNoData) THEN onNoData(s)
          ELSE IF \E r \in R : includes(r, txtUnableToConnect) THEN s
          ELSE IF \E r \in R : includes(r, txtCanError) THEN s
          ELSE IF \E r \in R : includes(r, <<"?">>)
               THEN IF s.batchMode /\ s.currentBatch # <<>>
                    THEN [s EXCEPT !.batchModeFailed = TRUE, !.batchMode = FALSE]
                    ELSE s
               ELSE s
     ELSE IF /\ Len(dataResponses) = 1 /\ s.batchMode /\ s.currentBatch # <<>>
             /\ ~includes(dataResponses[1], <<" ">>) /\ Len(dataResponses[1]) > 10
          THEN processBatchResponseWithoutSpaces(s, dataResponses[1])
     ELSE processEachText(s, dataResponses)

\* Variant: the pending request is settled by any chunk.
handleDataText_settlesEarly(s, data) ==
  LET b == s.buffer \o data
      s1 == [clearResponseTimeout(s) EXCEPT !.awaitingResponse = FALSE,
                                            !.resolved = TRUE]
  IN IF ~includes(b, <<PROMPT>>)
     THEN [s1 EXCEPT !.buffer = b]
     ELSE LET responses == cleanLines(b)
              s2 == IF responses = <<>> THEN s1
                    ELSE processBatchResponseText(s1, responses)
              s3 == [s2 EXCEPT !.buffer = <<>>]
          IN IF s3.continuousMode /\ s3.initialized THEN Arm(s3, "immediate") ELSE s3

\* handleData(data) in the polling stage (initStage null, not probing), where
\* the responses go to processBatchResponse
handleDataText(s, data) ==
  LET b == s.buffer \o data
  IN IF ~includes(b, <<PROMPT>>)
     THEN [s EXCEPT !.buffer = b]
     ELSE LET s1 == [clearResponseTimeout(s) EXCEPT !.awaitingResponse = FALSE,
                                                    !.resolved = TRUE]
              responses == cleanLines(b)
              s2 == IF responses = <<>> THEN s1
                    ELSE processBatchResponseText(s1, responses)
              s3 == [s2 EXCEPT !.buffer = <<>>]
          IN IF s3.continuousMode /\ s3.initialized THEN Arm(s3, "immediate") ELSE s3

----------------------------------------------------------------------------
(* The polling loop over received text: the adapter's replies, cut into     *)
(* chunks at any character, parsed and decoded                              *)

TextPidLists == { <<"0C", "05", "24", "22:0545">>, <<"05", "0F", "0C">> }
TextBatchSizes == {2, 3}

\* The value bytes the ECU reports for a PID.
ValueBytes(pid) ==
  CASE pid = "0C" -> <<26, 248>>
    [] pid = "05" -> <<123>>
    [] pid = "0F" -> <<60>>
    [] pid = "24" -> <<128, 0, 18, 52>>
    [] pid = "22:0545" -> <<1, 44>>

\* A byte as the adapter writes it: two upper-case hex digits.
HexByte(n) == <<HexChars[(n \div 16) + 1], HexChars[(n % 16) + 1]>>

RECURSIVE hexText(_, _)
\* The bytes in hex, each preceded by sep.
hexText(bytes, sep) ==
  IF bytes = <<>> THEN <<>>
  ELSE sep \o HexByte(Head(bytes)) \o hexText(Tail(bytes), sep)

RECURSIVE concatFrames(_)
\* P1 data1 ... PN dataN without spaces
concatFrames(pids) ==
  IF pids = <<>> THEN <<>>
  ELSE PidText(Head(pids)) \o hexText(ValueBytes(Head(pids)), <<>>)
         \o concatFrames(Tail(pids))

\* "41" + P1 + data1 + ... + PN + dataN
ConcatReply(pids) == txt41 \o concatFrames(pids)

\* "41 0C 1A F8"
SpacedReply(pid) == txt41 \o <<" ">> \o PidText(pid) \o hexText(ValueBytes(pid), <<" ">>)

\* The concatenated reply without its last byte.
ShortReply(pids) == SubSeq(ConcatReply(pids), 1, Len(ConcatReply(pids)) - 2)

\* Mode 22 replies to 22 0545: "620545012C" and "62 05 45 01 2C"
ConcatReply22 == txt62 \o <<"0", "5", "4", "5">> \o hexText(ValueBytes("22:0545"), <<>>)
SpacedReply22 ==
  txt62 \o <<" ", "0", "5", " ", "4", "5">> \o hexText(ValueBytes("22:0545"), <<" ">>)

\* Data lines that are no frame: a mode byte and an identifier without a
\* value byte, concatenated and space-delimited, and a frame that follows a CAN
\* header, so that its first byte is not a response mode.
BadFrames(command) ==
  IF command[1] = "22"
  THEN { txt62 \o <<"0", "5", "4", "5">>, txt62 \o <<" ", "0", "5", " ", "4", "5">> }
  ELSE { txt41 \o PidText(command[2]), txt41 \o <<" ">> \o PidText(command[2]),
         <<"7", "E", "8", " ", "0", "4", " ">> \o SpacedReply(command[2]) }

\* The logical lines the adapter may answer a polling command with.
ReplyTexts(command) ==
  LET pids == Tail(command)
  IN {<<line>> : line \in BadFrames(command)} \cup
     IF command[1] = "22"
     THEN { <<ConcatReply22>>, <<SpacedReply22>>, <<txtCanError>> }
     ELSE { <<ConcatReply(pids)>>, <<SpacedReply(pids[1])>>, <<<<"?">>>>,
            <<txtCanError>>,
            \* the reply breaks off before the last byte
            <<ShortReply(pids)>>,
            \* the ECU leaves out the first PID asked for
            <<ConcatReply(Tail(pids))>>,
            \* an identifier nobody asked for comes first
            <<txt41 \o <<"0", "D">> \o concatFrames(Tail(pids))>> }

RECURSIVE joinLines(_)
joinLines(lines) ==
  IF lines = <<>> THEN <<>> ELSE Head(lines) \o <<CR>> \o joinLines(Tail(lines))

\* What the adapter transmits for a command, as the text and the logical lines
\* it carries: the reply line ended by a carriage return, sometimes after a
\* SEARCHING... status line, or with a trailing space and CR LF line ends, or
\* as a multi-line reply (a byte count, then the numbered lines), itself
\* sometimes after the status line; then a carriage return and the prompt.
Transmissions(command) ==
  UNION { { [text |-> joinLines(r) \o <<CR, PROMPT>>, lines |-> r],
            [text |-> txtSearching \o <<".", ".", ".", CR>> \o joinLines(r)
                        \o <<CR, PROMPT>>,
             lines |-> r],
            [text |-> <<CR, LF>> \o r[1] \o <<" ", CR, LF, CR, LF, PROMPT>>,
             lines |-> r] }
          \cup (IF isDataText(r[1])
                THEN { [text |-> head \o <<"0", "0", "A", CR, "0", ":", " ">> \o r[1]
                                   \o <<CR, "1", ":", " ", "0", "0", " ", "0", "0", CR,
                                        CR, PROMPT>>,
                        lines |-> r \o << <<"0", "0", " ", "0", "0">> >>] :
                       head \in {<<>>, txtSearching \o <<".", ".", ".", CR>>} }
                ELSE {}) : r \in ReplyTexts(command) }

\* Where a transmission is cut in two chunks: after its first character, inside
\* its first line, before its last line break and before the prompt.
Cuts(text) == {1, 5, Len(text) - 2, Len(text) - 1}

\* port.on('data') in the polling stage, with the next characters of a
\* transmission: a transmission arrives in one chunk or cut in two, and a
\* chunk may be empty.
FeedText ==
  /\ armed["immediate"] = 0 /\ port = "open" /\ inflight # <<>>
  /\ initStage = "null" /\ ~isProbing
  /\ \E t \in {tr.text : tr \in Transmissions(inflight)} :
     \E n \in (Cuts(t) \cup {Len(buffer), Len(t)}) \cap Len(buffer)..Len(t) :
       LET data == SubSeq(t, Len(buffer) + 1, n)
           b == buffer \o data
           complete == includes(b, <<PROMPT>>)
       IN /\ startsWith(t, buffer)
          /\ complete => n = Len(t)
          /\ buffer # <<>> => n \in {Len(buffer), Len(t)}
          /\ Commit(<<"text", data, IF complete THEN cleanLines(b) ELSE <<>> >>,
                    handleDataText([S EXCEPT !.inflight = IF complete THEN <<>> ELSE @],
                                   data))

InitText ==
  /\ state = "active" /\ consecutiveFailures = 0
  /\ lastSuccessfulData = FALSE /\ smProbeTimeout = FALSE
  /\ port = "open" /\ enabledPids \in TextPidLists
  /\ maxBatchSize \in TextBatchSizes
  /\ currentPidIndex = 0 /\ initialized = TRUE /\ buffer = <<>>
  /\ lastCommand = <<"ATSP0">> /\ batchMode = TRUE /\ batchModeFailed = FALSE
  /\ currentBatch = <<>> /\ awaitingResponse = FALSE /\ responseTimeout = FALSE
  /\ continuousMode = TRUE /\ reconnectTimeout = FALSE /\ initStage = "null"
  /\ isProbing = FALSE /\ probeTimeout = FALSE /\ adapterCheckTimeout = FALSE
  /\ engineCheckTimeout = FALSE
  /\ armed = [k \in CountedTimers |-> 0] /\ initSeqs = [i \in 0..4 |-> 0]
  /\ older = [k \in CountedTimers |-> 0] /\ plugin = "started" /\ inflight = <<>>
  /\ ev = <<"init">> /\ wrote = <<>> /\ emitted = <<>> /\ polls = <<>>
  /\ resolved = TRUE /\ requested = {} /\ batchWalk = <<>>
  /\ session = [opens |-> 1, adapter |-> TRUE, engine |-> TRUE, probed |-> FALSE,
                config |-> 3, probeFailures |-> 0]

NextText == Request \/ FeedText \/ ResponseTimeout \/ Immediate

SpecText == InitText /\ [][NextText]_vars

----------------------------------------------------------------------------
(* Properties *)

\* C1: at most one polling request is outstanding: a request is issued only
\* when none is pending, and since the request before it a prompt-terminated
\* reply has arrived or a response timeout has expired; so at most one response
\* timer is armed.
C1_OneOutstandingRequest ==
  /\ \A i \in 1..Len(polls) : ~polls[i].pending /\ polls[i].resolved
  /\ armed["response"] <= 1
  /\ awaitingResponse /\ port = "open" /\ plugin = "started" => responseTimeout

\* A request written from the callback of the response timeout of the one before.
C1_Witness ==
  /\ ev = <<"responseTimeout">> /\ Len(polls) = 1 /\ polls[1].written
  /\ awaitingResponse /\ armed["response"] = 1

\* The step is the arrival of the prompt that completes the reply `line`.
Replied(line) ==
  /\ ev'[1] = "data" /\ ev'[2].prompt
  /\ buffer \o ev'[2].lines = <<line>>

\* C2: a NO DATA reply received while the state is Probing causes no state
\* change and no signal.
C2_NoDataWhileProbing ==
  [][state = "probing" /\ Replied("NO DATA")
       => state' = "probing" /\ emitted' = <<>>]_vars

\* C3: the expiry of the response timeout of a polling request increments the
\* state machine's consecutive no-data counter, or moves the state to Probing.
C3_TimeoutCountsAsNoData ==
  [][ev' = <<"responseTimeout">> /\ state = "active"
       => consecutiveFailures' = consecutiveFailures + 1 \/ state' = "probing"]_vars

\* C4: while the state is Probing, a probe answered with NO DATA leaves the
\* state Probing and arms the timer that sends the next probe.
C4_ProbeNoDataReschedules ==
  [][state = "probing" /\ isProbing /\ Replied("NO DATA")
       => state' = "probing" /\ smProbeTimeout' /\ armed'["smProbe"] = 1]_vars

\* C5: while the state is Probing and the port stays open, a probe that times
\* out or is answered with NO DATA is followed by another probe: the step
\* leaves the next probe scheduled.
C5_ProbesGoOn ==
  [][(state = "probing" /\ port' = "open"
        /\ (Replied("NO DATA") \/ ev' = <<"probeTimeout">>))
       => (armed'["smProbe"] > 0 \/ armed'["probe"] > 0)]_vars

\* C6: after the engine check ended with NO DATA or with its timeout (state
\* EngineOff), while the port stays open a probe that times out or is answered
\* with NO DATA is followed by another probe: the step leaves a probe scheduled
\* or sent.
C6_EngineOffProbesGoOn ==
  [][(state = "engine_off" /\ port' = "open"
        /\ (Replied("NO DATA") \/ ev' = <<"probeTimeout">>))
       => (armed'["smProbe"] > 0 \/ armed'["probe"] > 0)]_vars

\* C7: when the initialization sequence completes on a reopened port whose two
\* handshake stages passed, the scheduler is in continuous mode, so that every
\* reply and every timeout is followed by another PID request.
C7_PollsAgainAfterReconnect ==
  [][(ev' = <<"initTimer", 4>> /\ port' = "open" /\ session'.opens > 1
        /\ session'.adapter /\ session'.engine /\ ~session'.probed)
       => continuousMode']_vars

C9_NoTimerAfterDisconnect ==
  plugin = "stopped" =>
    /\ \A k \in CountedTimers : armed[k] = 0
    /\ \A i \in 0..4 : initSeqs[i] = 0

\* C10: when an attempt to open the port fails with an error event, a further
\* attempt is scheduled: the reconnect timer is armed.
C10_OpenFailureSchedulesReconnect ==
  [][ev' = <<"error">> => (reconnectTimeout' /\ armed'["reconnect"] > 0)]_vars

C12_DemotionIsSticky ==
  [][/\ batchModeFailed => (batchModeFailed' /\ ~batchMode')
     /\ batchModeFailed' => (~batchMode' /\ \A i \in 1..Len(polls') : Len(polls'[i].cmd) = 2)
     /\ (~batchModeFailed /\ batchModeFailed')
          => (batchMode /\ currentBatch # <<>>
              /\ (ev' = <<"responseTimeout">> \/ Replied("?")))]_vars

\* After the demotion a request is issued where the cursor stands at the start
\* of a window of two Mode 01 PIDs: it asks for the first of them only.
C12_Witness ==
  /\ batchModeFailed /\ ~batchMode /\ Len(polls) = 1
  /\ polls[1].cmd = <<"01", "0C">> /\ currentPidIndex = 1
  /\ enabledPids = <<"0C", "05", "22:0545">> /\ maxBatchSize = 2

\* The PIDs of the batch window that starts at cursor c: as many as a batch
\* may hold, up to the end of the list.
Window(c) ==
  {enabledPids[c + j] : j \in 1..Min(maxBatchSize, Len(enabledPids) - c)}

\* The command that asks for one PID.
SingleCommand(pid) == IF IsMode22(pid) THEN <<"22", mode22Pid(pid)>> ELSE <<"01", pid>>

\* C13: no command mixes modes: a command of several PIDs is a Mode 01 command
\* of Mode 01 identifiers whose window holds no '22:' identifier; and when the
\* window at the cursor holds a '22:' identifier the request issued is the
\* single-PID command for the PID at the cursor, and batch mode is enabled
\* afterwards (unless it was demoted for good).
C13_NoMixedModes ==
  \A i \in 1..Len(polls) :
    LET p == polls[i]
        mixed == \E pid \in Window(p.cursor) : IsMode22(pid)
    IN /\ \A j \in 2..Len(p.cmd) : ~IsMode22(p.cmd[j])
       /\ Len(p.cmd) > 2 => (p.cmd[1] = "01" /\ ~mixed)
       /\ mixed => /\ p.cmd = SingleCommand(enabledPids[p.cursor + 1])
                   /\ ~batchModeFailed => batchMode

\* A Mode 01 PID at the cursor with a '22:' PID behind it in the window: the
\* Mode 01 PID is requested alone.
C13_Witness ==
  /\ enabledPids = <<"0C", "22:0545">> /\ maxBatchSize = 2 /\ Len(polls) = 1
  /\ polls[1].cursor = 0 /\ polls[1].cmd = <<"01", "0C">>
  /\ batchMode /\ ~batchModeFailed

\* The PIDs already requested in the pass that is under way.
InPass == IF requested = Range(enabledPids) THEN {} ELSE requested

\* C14: a step issues at most one command; the command asks for the PIDs at
\* the cursor, in list order without running over the end of the list, and
\* moves the cursor by their number modulo the list length; none of them was
\* requested before in the pass under way, a pass ending when every configured
\* PID has been requested; a step that issues no command leaves the cursor.
C14_Rotation ==
  [][LET n == Len(enabledPids) IN
     /\ Len(polls') <= 1
     /\ Len(polls') = 0 => currentPidIndex' = currentPidIndex
     /\ Len(polls') = 1 =>
          LET command == polls'[1].cmd
              k == Len(command) - 1
          IN /\ currentPidIndex + k <= n
             /\ \A j \in 1..k :
                  SingleCommand(enabledPids[currentPidIndex + j])
                    = <<command[1], command[j + 1]>>
             /\ currentPidIndex' = (currentPidIndex + k) % n
             /\ PidsOf(command) \cap InPass = {}
             /\ requested' = InPass \cup PidsOf(command)]_vars

\* A pass over three PIDs completed by a batch of two and a single command.
C14_Witness ==
  /\ enabledPids = <<"0C", "05", "22:0545">> /\ maxBatchSize = 2
  /\ Len(polls) = 1 /\ polls[1].cmd = <<"22", "0545">> /\ polls[1].cursor = 2
  /\ requested = {"0C", "05", "22:0545"} /\ currentPidIndex = 0
  /\ batchMode /\ ~batchModeFailed

\* C15: every Mode 01 polling command, so every batched command, names at
\* least one and at most maxBatchSize PIDs, which are the PIDs of the list from
\* the cursor on, in list order; a command of several PIDs is the batch on
\* record.
C15_BatchSize ==
  \A i \in 1..Len(polls) :
    LET p == polls[i]
        k == Len(p.cmd) - 1
    IN p.cmd[1] = "01" =>
         /\ 1 <= k /\ k <= maxBatchSize
         /\ p.cursor + k <= Len(enabledPids)
         /\ \A j \in 1..k : p.cmd[j + 1] = enabledPids[p.cursor + j]
         /\ k > 1 => currentBatch = Tail(p.cmd)

\* The last batch of a pass, cut short by the end of the list: one PID although
\* two are allowed.
C15_Witness ==
  /\ enabledPids = <<"0C", "05", "0F">> /\ maxBatchSize = 2
  /\ Len(polls) = 1 /\ polls[1].cursor = 2 /\ polls[1].cmd = <<"01", "0F">>
  /\ batchMode /\ ~batchModeFailed /\ currentBatch = <<"0F">>

\* C16: the expiry of the response timeout in continuous mode clears the
\* pending request and, when the connection is initialized and the PID list
\* is not empty, issues the next request in the same step: the step ends with
\* a request pending under a response timeout, written if the port is open;
\* otherwise the step issues nothing and leaves no request pending.
C16_TimeoutKeepsPolling ==
  [][(ev' = <<"responseTimeout">> /\ continuousMode)
       => IF initialized /\ enabledPids # <<>>
          THEN /\ Len(polls') = 1 /\ ~polls'[1].pending
               /\ port = "open" => polls'[1].written
               /\ awaitingResponse' /\ responseTimeout' /\ armed'["response"] = 1
          ELSE Len(polls') = 0 /\ ~awaitingResponse']_vars

\* A batched request timed out: batch mode is demoted and the next request, a
\* single one, is pending.
C16_Witness ==
  /\ ev = <<"responseTimeout">> /\ continuousMode /\ initialized
  /\ batchModeFailed /\ Len(polls) = 1 /\ polls[1].cmd = <<"01", "0C">>
  /\ awaitingResponse /\ armed["response"] = 1 /\ wrote = << <<"01", "0C">> >>

\* C17: requestNextPid called while the connection is not initialized, the PID
\* list is empty or a request is pending writes no command and leaves the PID
\* cursor, the pending flag, the response timeout and its timer, batch mode and
\* the batch on record unchanged.
C17_RequestNoOp ==
  [][(ev' = <<"request">> /\ (~initialized \/ enabledPids = <<>> \/ awaitingResponse))
       => /\ wrote' = <<>> /\ polls' = <<>>
          /\ UNCHANGED << currentPidIndex, awaitingResponse, responseTimeout, armed,
                          batchMode, batchModeFailed, currentBatch, lastCommand,
                          inflight >>]_vars

\* requestNextPid called while a request is pending.
C17_Witness ==
  /\ ev = <<"request">> /\ initialized /\ enabledPids # <<>>
  /\ awaitingResponse /\ armed["response"] = 1 /\ polls = <<>> /\ wrote = <<>>
  /\ currentPidIndex = 1

\* C18: in every session the state Active is entered and a PID polling request
\* is issued only after a valid adapter identity reply, then an engine data
\* reply to the engine-liveness query, then the writing of ATE0, ATH0 and ATSP0.
C18_HandshakeOrdered ==
  (state = "active" \/ polls # <<>>)
    => (session.adapter /\ session.engine /\ session.config = 3)

\* C19: a step emits adapterError only when taken in state AdapterCheck, and
\* engineOff or engineError only when taken in state EngineCheck on the reply
\* to, or the timeout of, the engine-liveness query 0100; replies arriving in
\* other states emit none of the three events.
C19_FailureEventsInStage ==
  [][/\ <<"adapterError">> \in Range(emitted') => state = "adapter_check"
     /\ (<<"engineOff">> \in Range(emitted') \/ <<"engineError">> \in Range(emitted'))
          => /\ state = "engine_check"
             /\ lastCommand = PROBE
             /\ ev' = <<"engineCheckTimeout">> \/ ev'[1] = "data"]_vars

\* The adapter check of the connection attempt under way has failed: the port
\* is open in state AdapterCheck, no identity has been recognised, and the
\* adapter-check timer is no longer armed: it has expired, or an unrecognised
\* reply has cleared it. Either way adapterError has been emitted.
AdapterCheckFailed ==
  /\ state = "adapter_check" /\ port = "open" /\ plugin = "started"
  /\ ~session.adapter /\ armed["adapterCheck"] = 0

\* C20: in state AdapterCheck, the timeout of the identity query, or a reply
\* to it without a recognised adapter identity, emits adapterError, leaves the
\* state AdapterCheck and schedules no engine check; and once the adapter check
\* has failed no later step of the attempt schedules or writes the
\* engine-liveness query.
C20_AdapterErrorEndsAttempt ==
  [][/\ (state = "adapter_check"
          /\ (ev' = <<"adapterCheckTimeout">> \/ Replied("OK")))
        => /\ <<"adapterError">> \in Range(emitted')
           /\ state' = "adapter_check"
           /\ armed'["engineStart"] = 0
     /\ AdapterCheckFailed
        => /\ armed'["engineStart"] = 0
           /\ PROBE \notin Range(wrote')]_vars

\* The step is a probe that fails: its timeout, or a reply to it that is
\* neither engine data nor NO DATA.
ProbeFails ==
  \/ ev' = <<"probeTimeout">>
  \/ isProbing /\ lastCommand = PROBE /\ initStage = "null" /\ Replied("CAN ERROR")

\* C21: in state Probing, the probe failure that follows 10 probes failed in a
\* row (timed out, or answered with an unusable reply) moves the state to
\* Disconnected, emits connectionLost and arms the reconnect timer.
C21_ProbeFailuresDisconnect ==
  [][(state = "probing" /\ session.probeFailures = 10 /\ ProbeFails)
       => /\ state' = "disconnected"
          /\ <<"connectionLost">> \in Range(emitted')
          /\ reconnectTimeout' /\ armed'["reconnect"] = 1]_vars

\* The step decodes a reading: it emits 'data'.
Reading == \E i \in 1..Len(emitted') : emitted'[i][1] = "data"

\* C22: a reading decoded while the state is Active leaves the state Active
\* and sets the consecutive no-data counter to 0; in Active the counter grows
\* only by one, on a NO DATA reply; and the step from Active to Probing is the
\* NO DATA reply that takes the counter from 4 to 5.
C22_ReadingResetsCounter ==
  [][/\ (state = "active" /\ Reading)
        => (state' = "active" /\ consecutiveFailures' = 0 /\ lastSuccessfulData')
     /\ (state = "active" /\ state' = "active"
          /\ consecutiveFailures' > consecutiveFailures)
        => (Replied("NO DATA") /\ consecutiveFailures' = consecutiveFailures + 1)
     /\ (state = "active" /\ state' = "probing")
        => (Replied("NO DATA") /\ consecutiveFailures = 4
            /\ consecutiveFailures' = 5)]_vars

\* A reading, then five NO DATA replies: the state has just become Probing.
C22_Witness ==
  /\ state = "probing" /\ consecutiveFailures = 5 /\ lastSuccessfulData
  /\ ev[1] = "data" /\ ev[2].lines = <<"NO DATA">>
  /\ <<"stateChange", "active", "probing">> \in Range(emitted)

\* C23: no step that ends in state Probing, from the one that enters Probing
\* on, issues a PID request, and the only command such a step writes is the
\* probe 0100.
C23_NoPollingWhileProbing ==
  state = "probing" => (polls = <<>> /\ Range(wrote) \subseteq {PROBE})

\* A probe written in state Probing after an earlier probe.
C23_Witness ==
  /\ state = "probing" /\ ev = <<"probe">> /\ wrote = <<PROBE>>
  /\ isProbing /\ ~continuousMode /\ initialized /\ ~awaitingResponse

\* The reply that arrives answers a polling request: handleData hands it to
\* processBatchResponse.
PollReply == initStage = "null" /\ ~(isProbing /\ lastCommand = PROBE)

\* C24: a reply that is only UNABLE TO CONNECT or only CAN ERROR leaves the
\* state, the no-data counter, batch mode and the PID cursor unchanged; a
\* NO DATA reply leaves batch mode unchanged and, when it answers a polling
\* request, adds one to the no-data counter; a '?' reply leaves the no-data
\* counter and the state unchanged.
C24_ErrorTokensApart ==
  [][/\ (Replied("UNABLE TO CONNECT") \/ Replied("CAN ERROR"))
        => UNCHANGED << state, consecutiveFailures, batchMode, batchModeFailed,
                        currentPidIndex >>
     /\ Replied("NO DATA")
        => /\ UNCHANGED << batchMode, batchModeFailed >>
           /\ PollReply => consecutiveFailures' = consecutiveFailures + 1
     /\ Replied("?")
        => UNCHANGED << state, consecutiveFailures >>]_vars

\* A batched request answered with CAN ERROR after two NO DATA replies: batch
\* mode and the counter are as they were.
C24_Witness ==
  /\ ev[1] = "data" /\ ev[2].lines = <<"CAN ERROR">> /\ ev[2].prompt
  /\ state = "active" /\ consecutiveFailures = 2
  /\ batchMode /\ ~batchModeFailed /\ currentBatch # <<>> /\ currentPidIndex = 2

\* A chunk of text is received: ev' = <<"text", data, responses>>.
Fed == ev'[1] = "text"

\* What the connection holds besides the receive buffer.
connection == << state, consecutiveFailures, lastSuccessfulData, smProbeTimeout,
                 port, enabledPids, maxBatchSize, currentPidIndex, initialized,
                 lastCommand, batchMode, batchModeFailed, currentBatch,
                 awaitingResponse, responseTimeout, continuousMode, reconnectTimeout,
                 initStage, isProbing, probeTimeout, adapterCheckTimeout,
                 engineCheckTimeout, armed, initSeqs, inflight, resolved >>

\* C25: data received while the accumulated buffer holds no prompt character
\* yields no logical line and no dispatch (no event, no command, no timer, no
\* change of the connection), leaves the pending request and its timeout as they
\* are, and the buffer is the old buffer followed by the data; an empty chunk
\* then changes nothing, the buffer included.
C25_NoPromptRetains ==
  [][(Fed /\ ~includes(buffer \o ev'[2], <<PROMPT>>))
       => /\ emitted' = <<>> /\ wrote' = <<>> /\ polls' = <<>> /\ batchWalk' = <<>>
          /\ UNCHANGED connection
          /\ buffer' = buffer \o ev'[2]
          /\ ev'[2] = <<>> => buffer' = buffer]_vars

C25_Witness ==
  /\ ev = <<"text", <<>>, <<>> >> /\ Len(buffer) = 5 /\ ~includes(buffer, <<PROMPT>>)
  /\ awaitingResponse /\ responseTimeout /\ armed["response"] = 1

\* A line that starts with a line index: a decimal digit and a colon.
Numbered(line) == Len(line) >= 2 /\ line[1] \in Digit /\ line[2] = ":"

\* C26: when the buffer with the data received holds the prompt character, the
\* parser's output is the logical lines of the transmission in their order; no
\* output line is blank, is the prompt token, is a SEARCHING status line or
\* still carries a line-number prefix; and the buffer is empty afterwards.
C26_CleanedLinesInOrder ==
  [][(Fed /\ includes(buffer \o ev'[2], <<PROMPT>>))
       => /\ \A t \in Transmissions(inflight) :
               buffer \o ev'[2] = t.text => ev'[3] = t.lines
          /\ \A i \in 1..Len(ev'[3]) :
               /\ trim(ev'[3][i]) # <<>> /\ ev'[3][i] # <<PROMPT>>
               /\ ~startsWith(ev'[3][i], txtSearching) /\ ~Numbered(ev'[3][i])
          /\ buffer' = <<>>]_vars

C26_Witness ==
  /\ ev[1] = "text" /\ ev[2] = <<PROMPT>> /\ buffer = <<>>
  /\ ev[3] = <<SpacedReply("0C"), <<"0", "0", " ", "0", "0">> >>

\* C27: of a complete frame (the buffer up to the prompt that ends it), no line
\* of exactly three hex digits is in the parser's output, whether the line is
\* the first of the frame or comes after others.
C27_ByteCountRemoved ==
  [][(Fed /\ includes(buffer \o ev'[2], <<PROMPT>>))
       => \A i \in 1..Len(ev'[3]) : ~isByteCount(ev'[3][i])]_vars

C27_Witness ==
  /\ ev[1] = "text" /\ startsWith(ev[2], txtSearching)
  /\ includes(ev[2], <<CR, "0", "0", "A", CR>>) /\ Len(ev[3]) = 2 /\ buffer = <<>>

\* The readings a step emits: its 'data' events <<"data", pid, raw>>.
Readings == SelectSeq(emitted', LAMBDA e : e[1] = "data")

C29_BatchRoundTrip ==
  [][(/\ Fed /\ includes(buffer \o ev'[2], <<PROMPT>>)
      /\ Len(inflight) >= 3 /\ inflight[1] = "01"
      /\ ev'[3][1] = ConcatReply(Tail(inflight)))
       => Readings = [i \in 1..(Len(inflight) - 1) |->
                        <<"data", inflight[i + 1], ValueBytes(inflight[i + 1])>>]]_vars

\* C30 as stated: in the de-concatenation of a batch reply, a round that finds
\* another identifier at the read cursor than its target PID moves the cursor
\* past that identifier (two characters) and the next round takes the next
\* target; so a reply in which a foreign identifier stands before the frames of
\* the later targets still yields the readings of those targets.
C30_MismatchAdvancesCursor ==
  [][/\ \A i \in 1..(Len(batchWalk') - 1) :
          batchWalk'[i].outcome = "mismatch"
            => /\ batchWalk'[i + 1].cursor = batchWalk'[i].cursor + 2
               /\ batchWalk'[i + 1].pid = currentBatch[i + 1]
     /\ (/\ Fed /\ includes(buffer \o ev'[2], <<PROMPT>>)
         /\ Len(inflight) >= 3 /\ inflight[1] = "01"
         /\ ev'[3][1] = txt41 \o <<"0", "D">> \o concatFrames(Tail(Tail(inflight)))
         /\ batchWalk' # <<>>)
        => Readings = [i \in 1..(Len(inflight) - 2) |->
                         <<"data", inflight[i + 2], ValueBytes(inflight[i + 2])>>]]_vars

\* C30: in the de-concatenation of a batch reply, a round that finds another
\* identifier at the read cursor than its target PID leaves the cursor where it
\* is and the next round compares the next target at the same place; so a reply
\* that leaves out the first target still yields the readings of the targets
\* that follow, each with its own bytes.
C30_MismatchKeepsCursor ==
  [][/\ \A i \in 1..(Len(batchWalk') - 1) :
          batchWalk'[i].outcome = "mismatch"
            => /\ batchWalk'[i + 1].cursor = batchWalk'[i].cursor
               /\ batchWalk'[i + 1].pid = currentBatch[i + 1]
     /\ (/\ Fed /\ includes(buffer \o ev'[2], <<PROMPT>>)
         /\ Len(inflight) >= 3 /\ inflight[1] = "01"
         /\ ev'[3][1] = ConcatReply(Tail(Tail(inflight)))
         /\ batchWalk' # <<>>)
        => Readings = [i \in 1..(Len(inflight) - 2) |->
                         <<"data", inflight[i + 2], ValueBytes(inflight[i + 2])>>]]_vars

C30_Witness ==
  /\ ev[1] = "text" /\ currentBatch = <<"05", "0F", "0C">>
  /\ batchWalk = << [pid |-> "05", cursor |-> 2, outcome |-> "mismatch"],
                    [pid |-> "0F", cursor |-> 2, outcome |-> "decoded"],
                    [pid |-> "0C", cursor |-> 6, outcome |-> "decoded"] >>
  /\ emitted = << <<"data", "0F", <<60>> >>, <<"data", "0C", <<26, 248>> >> >>

\* C31: when the concatenated reply to a batch runs short for the declared
\* byte length of a target PID (here the last one), the readings of the PIDs
\* before it are emitted with their own bytes, the PID that runs short yields
\* none, no other event is emitted, batch mode stays as it is and the next
\* request is scheduled.
C31_ShortReplyStopsSplit ==
  [][(/\ Fed /\ includes(buffer \o ev'[2], <<PROMPT>>)
      /\ Len(inflight) >= 3 /\ inflight[1] = "01"
      /\ ev'[3][1] = ShortReply(Tail(inflight)))
       => /\ emitted' = [i \in 1..(Len(inflight) - 2) |->
                           <<"data", inflight[i + 1], ValueBytes(inflight[i + 1])>>]
          /\ UNCHANGED << batchMode, batchModeFailed, state >>
          /\ armed'["immediate"] = 1]_vars

\* C32: a data line without a value byte after the mode byte and the identifier
\* (one byte for Mode 01, two for Mode 22), or whose first byte is neither 41
\* nor 62, yields no reading and no other event, leaves the state machine as it
\* is, and the next request is scheduled as after any reply.
C32_BadFrameIgnored ==
  [][(/\ Fed /\ includes(buffer \o ev'[2], <<PROMPT>>)
      /\ ev'[3][1] \in BadFrames(inflight))
       => /\ emitted' = <<>>
          /\ UNCHANGED << state, consecutiveFailures, lastSuccessfulData, batchMode,
                          batchModeFailed >>
          /\ ~awaitingResponse' /\ armed'["immediate"] = 1]_vars

C32_Witness ==
  /\ ev[1] = "text" /\ ev[3] = << txt41 \o <<" ", "0", "5">> >>
  /\ emitted = <<>> /\ armed["immediate"] = 1 /\ state = "active"

\* C33: batch mode is disabled for good (batchModeFailed is set) only in a step
\* in which the command that failed is the batched command on record: the
\* timeout of, or the reply to, a command sent for a single PID, such as the
\* fallback for a window with a Mode 22 PID, leaves batchModeFailed clear.
C33_OnlyBatchFailureDemotes ==
  [][(batchModeFailed' /\ ~batchModeFailed)
       => (currentBatch # <<>> /\ lastCommand = <<"01">> \o currentBatch)]_vars

\* The transport has closed and has not opened again.
Closed == session.opens >= 1 /\ port \in {"null", "opening", "failed"}

\* C34: from the close of the transport until it opens again the state is
\* Disconnected and the connection is not initialized, whatever timers armed
\* before the close expire in between.
C34_ClosedStaysDisconnected == Closed => (state = "disconnected" /\ ~initialized)

\* C35: whenever the state is Active and the connection is initialized,
\* continuous polling is enabled and the probing flag is clear.
C35_ActiveFlagsAgree ==
  (state = "active" /\ initialized) => (continuousMode /\ ~isProbing)

\* C36: with the port open the engine_check state is always eventually left:
\* every reply to the engine check, and its timeout, leads on to initializing
\* or to engine_off.
C36_EngineCheckIsLeft ==
  (state = "engine_check" /\ port = "open")
     ~> (state # "engine_check" \/ port # "open")

\* C37: at any time at most one probe-related timer is armed: the probe's
\* response timeout or the timer of the next probe.
C37_OneProbeTimer == armed["probe"] + armed["smProbe"] <= 1

\* C38: whenever a polling request is pending, a response timeout is armed.
C38_PendingHasTimeout ==
  awaitingResponse => (responseTimeout /\ armed["response"] >= 1)

\* C39: between events, whenever the state is active the no-data counter is
\* below maxConsecutiveFailures, and the counter is 0 after every transition
\* into active.
C39_ActiveCounterBelowThreshold ==
  [][/\ (state' = "active" => consecutiveFailures' < maxConsecutiveFailures)
     /\ ((state # "active" /\ state' = "active") => consecutiveFailures' = 0)]_vars

\* Probing, entered with the counter at its threshold, has been left for active
\* by a probe that succeeded.
C39_Witness ==
  /\ state = "active" /\ consecutiveFailures = 0 /\ ev[1] = "data"
  /\ emitted # <<>> /\ emitted[1] = <<"stateChange", "probing", "active">>

\* C40: every stateChange event that is emitted has oldState different from
\* newState.
C40_NoSelfTransition ==
  \A i \in 1..Len(emitted) :
     emitted[i][1] = "stateChange" => emitted[i][2] # emitted[i][3]

====
